---- MODULE Spec2Model ----
(***************************************************************************)
(* State-machine model of the SCD30 I2C driver (class SCD30).              *)
(*                                                                         *)
(* The engine's own state is the measurement cache (co2, temperature,      *)
(* humidity), three 32-bit float objects.  A 32-bit pattern is written as  *)
(* a tuple of four bytes, most significant byte first.  The I2C transport  *)
(* (Wire) is the environment: every end-of-transmission status and every   *)
(* received buffer is chosen nondeterministically.  An addressed read      *)
(* either delivers the requested number of bytes or none.                  *)
(*                                                                         *)
(* Each public method is one action, taken by the sketch when it is idle.  *)
(* The variables op, arg, ret, bus and old record the call: its name, its  *)
(* input, its result, the bus transactions it performed, and the cache     *)
(* before the call.  The sketch then resumes (Resume), which drops the     *)
(* record, and makes its next call.                                        *)
(* wireBegun records that Wire.begin() has run.                            *)
(*                                                                         *)
(* Two further specifications refine the environment.  SpecDevice puts a   *)
(* device behind the bus that acknowledges every write and stores command  *)
(* arguments (device).  SpecIrq runs the lazy refresh of the accessors     *)
(* step by step in two contexts, the sketch (main) and the interrupt       *)
(* callback (isr), with the data-ready interrupt line (irq) between them.  *)
(***************************************************************************)
EXTENDS Integers, Sequences, FiniteSets, TLC

VARIABLES co2, temperature, humidity, wireBegun, op, arg, ret, bus, old,
          device, irq, main, isr

vars == <<co2, temperature, humidity, wireBegun, op, arg, ret, bus, old,
          device, irq, main, isr>>

\* the state outside the engine and its call record
others == <<device, irq, main, isr>>

(***************************************************************************)
(* Program constants                                                       *)
(***************************************************************************)
SCD30_I2C_ADDRESS == 97
SCD30_START_CONTINUOUS_MEASUREMENT == 16
SCD30_STOP_CONTINUOUS_MEASUREMENT == 260
SCD30_SET_MEASUREMENT_INTERVAL == 17920
SCD30_GET_READY_STATUS == 514
SCD30_READ_MEASUREMENT == 768
SCD30_SET_AUTOMATIC_SELFCALIBRATION == 21254
SCD30_SET_FORCED_RECALIBRATION == 20996
SCD30_SET_TEMPERATURE_OFFSET == 21507
SCD30_SET_ALTITUDE_COMPENSATION == 20738
SCD30_READ_FIRMWARE_VERSION == 53504
SCD30_SOFT_RESET == 54020
DefaultInterval == 2
FrcMin == 400
FrcMax == 2000
PressureMin == 700
PressureMax == 1200
CrcInit == 255
CrcGenerator == 49
FrameLen == 18
RegisterLen == 2

(***************************************************************************)
(* Bounds of the model                                                     *)
(***************************************************************************)
\* end-of-transmission statuses range over 0..MaxStatus (0 = acknowledged)
MaxStatus == 1
\* number of distinct bit patterns a frame field is drawn from
NumPatterns == 2
\* longest byte sequence handed to computeCRC8 besides the 2-byte arguments
MaxCrcLen == 3

Byte == 0..255
Statuses == 0..MaxStatus

(***************************************************************************)
(* Fixed-width bit operations                                              *)
(***************************************************************************)
RECURSIVE XorBits(_, _, _)
\* a ^ b on the low n bits, bit by bit
XorBits(a, b, n) ==
    IF n = 0 THEN 0
    ELSE (((a % 2) + (b % 2)) % 2) + 2 * XorBits(a \div 2, b \div 2, n - 1)

\* a ^ b for 4-bit a and b, tabulated
XorNibble == [a \in 0..15 |-> [b \in 0..15 |-> XorBits(a, b, 4)]]

\* a ^ b on uint8_t
BitXor(a, b) == 16 * XorNibble[a \div 16][b \div 16] + XorNibble[a % 16][b % 16]

RECURSIVE BitOr(_, _, _)
\* a | b on the low n bits
BitOr(a, b, n) ==
    IF n = 0 THEN 0
    ELSE (IF (a % 2) = 1 \/ (b % 2) = 1 THEN 1 ELSE 0)
             + 2 * BitOr(a \div 2, b \div 2, n - 1)

\* x >> 8 of a uint16_t
Msb(x) == x \div 256
\* x & 0x00FF
Lsb(x) == x % 256

(***************************************************************************)
(* computeCRC8                                                             *)
(***************************************************************************)
\* one iteration of the inner loop: test the top bit, shift, xor the generator;
\* the cast to uint8_t keeps the low eight bits
CrcShift(crc) ==
    IF (crc \div 128) % 2 # 0
    THEN BitXor((crc * 2) % 256, CrcGenerator)
    ELSE (crc * 2) % 256

RECURSIVE CrcByte(_, _)
\* the inner loop, i iterations left
CrcByte(crc, i) == IF i = 0 THEN crc ELSE CrcByte(CrcShift(crc), i - 1)

RECURSIVE CrcLoop(_, _, _, _)
\* the outer loop from index x (0-based) up to len
CrcLoop(crc, data, x, len) ==
    IF x >= len THEN crc
    ELSE CrcLoop(CrcByte(BitXor(crc, data[x + 1]), 8), data, x + 1, len)

\* the CRC started from 0 instead of 0xFF
computeCRC8ZeroInit(data, len) == CrcLoop(0, data, 0, len)

computeCRC8(data, len) == CrcLoop(CrcInit, data, 0, len)

(***************************************************************************)
(* Wire transactions                                                       *)
(***************************************************************************)
\* beginTransmission(address); write(b)...; endTransmission() returning status
WriteTx(address, bytes, status) ==
    [kind |-> "write", addr |-> address,
     data |-> [i \in 1..Len(bytes) |-> bytes[i] % 256], status |-> status]

\* requestFrom(address, n) with the bytes the device delivered
ReadTx(address, n, rx) ==
    [kind |-> "read", addr |-> address, n |-> n, data |-> rx]

\* Wire.available() after a request
WireAvailable(rx) == Len(rx) > 0

\* the k-th Wire.read() after a request (255 is (uint8_t)-1, the empty buffer)
WireRead(rx, k) == IF k <= Len(rx) THEN rx[k] ELSE 255

(***************************************************************************)
(* sendCommand (both overloads) and readRegister                           *)
(* Each yields [ret, bus]: the result and the transactions performed.      *)
(***************************************************************************)
\* a send that repeats an unacknowledged write once
sendCommandRetry(command, status) ==
    LET w == WriteTx(SCD30_I2C_ADDRESS, <<Msb(command), Lsb(command)>>, status)
    IN  [ret |-> (status = 0), bus |-> IF status = 0 THEN <<w>> ELSE <<w, w>>]

sendCommand(command, status) ==
    [ret |-> (status = 0),
     bus |-> << WriteTx(SCD30_I2C_ADDRESS, <<Msb(command), Lsb(command)>>, status) >>]

\* the argument sent least significant byte first
sendCommandArgLsbFirst(command, argument, status) ==
    LET data == <<Msb(argument), Lsb(argument)>>
        crc  == computeCRC8(data, 2)
    IN  [ret |-> (status = 0),
         bus |-> << WriteTx(SCD30_I2C_ADDRESS,
                            <<Msb(command), Lsb(command),
                              Lsb(argument), Msb(argument), crc>>, status) >>]

sendCommandArg(command, argument, status) ==
    LET data == <<Msb(argument), Lsb(argument)>>
        crc  == computeCRC8(data, 2)
    IN  [ret |-> (status = 0),
         bus |-> << WriteTx(SCD30_I2C_ADDRESS,
                            <<Msb(command), Lsb(command),
                              Msb(argument), Lsb(argument), crc>>, status) >>]

\* the response combined least significant byte first
readRegisterLsbFirst(registerAddress, status, rx) ==
    LET w == WriteTx(SCD30_I2C_ADDRESS,
                     <<Msb(registerAddress), Lsb(registerAddress)>>, status)
        r == ReadTx(SCD30_I2C_ADDRESS, RegisterLen, rx)
    IN  IF status # 0 THEN [ret |-> 0, bus |-> <<w>>]
        ELSE IF WireAvailable(rx)
             THEN [ret |-> BitOr((WireRead(rx, 2) * 256) % 65536, WireRead(rx, 1), 16),
                   bus |-> <<w, r>>]
             ELSE [ret |-> 0, bus |-> <<w, r>>]

readRegister(registerAddress, status, rx) ==
    LET w == WriteTx(SCD30_I2C_ADDRESS,
                     <<Msb(registerAddress), Lsb(registerAddress)>>, status)
        r == ReadTx(SCD30_I2C_ADDRESS, RegisterLen, rx)
    IN  IF status # 0 THEN [ret |-> 0, bus |-> <<w>>]
        ELSE IF WireAvailable(rx)
             THEN [ret |-> BitOr((WireRead(rx, 1) * 256) % 65536, WireRead(rx, 2), 16),
                   bus |-> <<w, r>>]
             ELSE [ret |-> 0, bus |-> <<w, r>>]

(***************************************************************************)
(* The measurement cache and readMeasurement                               *)
(***************************************************************************)
\* a 32-bit object holding 0 (float co2 = 0, uint32_t tempCO2 = 0)
Zero32 == <<0, 0, 0, 0>>

\* x <<= 8; x |= incoming; on a uint32_t
ShiftIn(x, incoming) == <<x[2], x[3], x[4], BitOr(0, incoming, 8)>>

\* the switch with the case labels of the comments (bytes 1, 2, 4, 5 ...)
DecodeByteShifted(t, b, incoming) ==
    IF b \in {1, 2, 4, 5}
    THEN [t EXCEPT !.co2 = ShiftIn(t.co2, incoming)]
    ELSE IF b \in {7, 8, 10, 11}
    THEN [t EXCEPT !.temperature = ShiftIn(t.temperature, incoming)]
    ELSE IF b \in {13, 14, 16, 17}
    THEN [t EXCEPT !.humidity = ShiftIn(t.humidity, incoming)]
    ELSE t

\* the body of the switch for byte index b
DecodeByte(t, b, incoming) ==
    IF b \in {0, 1, 3, 4}
    THEN [t EXCEPT !.co2 = ShiftIn(t.co2, incoming)]
    ELSE IF b \in {6, 7, 9, 10}
    THEN [t EXCEPT !.temperature = ShiftIn(t.temperature, incoming)]
    ELSE IF b \in {12, 13, 15, 16}
    THEN [t EXCEPT !.humidity = ShiftIn(t.humidity, incoming)]
    ELSE t

RECURSIVE DecodeLoop(_, _, _)
\* for (b = ...; b < 18; b++) { incoming = Wire.read(); switch (b) ... }
DecodeLoop(t, rx, b) ==
    IF b >= FrameLen THEN t
    ELSE DecodeLoop(DecodeByte(t, b, WireRead(rx, b + 1)), rx, b + 1)

\* the three locals tempCO2, tempTemperature, tempHumidity at their declaration
TempInit == [co2 |-> Zero32, temperature |-> Zero32, humidity |-> Zero32]

\* the measurement cache as a record
Cache == [co2 |-> co2, temperature |-> temperature, humidity |-> humidity]

\* readMeasurement without the early return on a missing acknowledgment
readMeasurementNoAckCheck(cache, status, rx) ==
    LET w == WriteTx(SCD30_I2C_ADDRESS,
                     <<Msb(SCD30_READ_MEASUREMENT), Lsb(SCD30_READ_MEASUREMENT)>>,
                     status)
        r == ReadTx(SCD30_I2C_ADDRESS, FrameLen, rx)
        t == IF WireAvailable(rx) THEN DecodeLoop(TempInit, rx, 0) ELSE TempInit
    IN  [ret |-> (status = 0), bus |-> <<w, r>>, cache |-> t]

\* readMeasurement without the last memcpy: the humidity member is not written
readMeasurementWithoutHumidity(cache, status, rx) ==
    LET w == WriteTx(SCD30_I2C_ADDRESS,
                     <<Msb(SCD30_READ_MEASUREMENT), Lsb(SCD30_READ_MEASUREMENT)>>,
                     status)
        r == ReadTx(SCD30_I2C_ADDRESS, FrameLen, rx)
        t == IF WireAvailable(rx) THEN DecodeLoop(TempInit, rx, 0) ELSE TempInit
    IN  IF status # 0
        THEN [ret |-> FALSE, bus |-> <<w>>, cache |-> cache]
        ELSE [ret |-> TRUE, bus |-> <<w, r>>,
              cache |-> [t EXCEPT !.humidity = cache.humidity]]

\* readMeasurement: [ret, bus, cache], cache being the three members afterwards
readMeasurement(cache, status, rx) ==
    LET w == WriteTx(SCD30_I2C_ADDRESS,
                     <<Msb(SCD30_READ_MEASUREMENT), Lsb(SCD30_READ_MEASUREMENT)>>,
                     status)
        r == ReadTx(SCD30_I2C_ADDRESS, FrameLen, rx)
        t == IF WireAvailable(rx) THEN DecodeLoop(TempInit, rx, 0) ELSE TempInit
    IN  IF status # 0
        THEN [ret |-> FALSE, bus |-> <<w>>, cache |-> cache]
        ELSE [ret |-> TRUE, bus |-> <<w, r>>, cache |-> t]

(***************************************************************************)
(* dataAvailable and the lazy-read accessors                               *)
(***************************************************************************)
\* a ready test that accepts every nonzero register value
dataAvailableNonZero(status, rx) ==
    LET reg == readRegister(SCD30_GET_READY_STATUS, status, rx)
    IN  [ret |-> (reg.ret # 0), bus |-> reg.bus]

dataAvailable(status, rx) ==
    LET reg == readRegister(SCD30_GET_READY_STATUS, status, rx)
    IN  [ret |-> (reg.ret = 1), bus |-> reg.bus]

\* an accessor that reads the measurement without looking at the ready status
RefreshAlways(cache, s1, rx1, s2, rx2) ==
    LET avail == dataAvailable(s1, rx1)
        m     == readMeasurement(cache, s2, rx2)
    IN  [bus |-> avail.bus \o m.bus, cache |-> m.cache]

\* an accessor that polls the ready status a second time when it is not set
RefreshPolling(cache, s1, rx1, s2, rx2) ==
    LET avail == dataAvailable(s1, rx1)
        m     == readMeasurement(cache, s2, rx2)
    IN  IF avail.ret = TRUE
        THEN [bus |-> avail.bus \o m.bus, cache |-> m.cache]
        ELSE [bus |-> avail.bus \o avail.bus, cache |-> cache]

\* if (dataAvailable() == true) readMeasurement();  -- [bus, cache]
Refresh(cache, s1, rx1, s2, rx2) ==
    LET avail == dataAvailable(s1, rx1)
        m     == readMeasurement(cache, s2, rx2)
    IN  IF avail.ret = TRUE
        THEN [bus |-> avail.bus \o m.bus, cache |-> m.cache]
        ELSE [bus |-> avail.bus, cache |-> cache]

RECURSIVE Pow2(_)
Pow2(n) == IF n = 0 THEN 1 ELSE 2 * Pow2(n - 1)

\* fields of an IEEE-754 single
FloatSign(f) == f[1] \div 128
FloatExp(f) == (f[1] % 128) * 2 + (f[2] \div 128)
FloatMant(f) == (f[2] % 128) * 65536 + f[3] * 256 + f[4]

\* |f| truncated toward zero, for a finite f below 2^24
FloatTrunc(f) ==
    IF FloatExp(f) < 127 THEN 0
    ELSE (8388608 + FloatMant(f)) \div Pow2(150 - FloatExp(f))

\* the values the implicit conversion float -> uint16_t can produce
\* (a truncated value outside 0..65535 is undefined behaviour)
FloatToUint16(f) ==
    IF FloatExp(f) < 127 THEN {0}
    ELSE IF FloatExp(f) <= 150 /\ FloatSign(f) = 0 /\ FloatTrunc(f) <= 65535
    THEN {FloatTrunc(f)}
    ELSE IF FloatExp(f) <= 150
    THEN {0, 65535, FloatTrunc(f) % 65536}
    ELSE {0, 65535}

\* 100 * f for a finite f of magnitude in [2^-7, 2^24) or zero, in hundredths
FloatTimes100(f) ==
    LET mag == IF FloatExp(f) = 0 THEN 0
               ELSE ((8388608 + FloatMant(f)) * 100) \div Pow2(150 - FloatExp(f))
    IN  IF FloatSign(f) = 1 THEN 0 - mag ELSE mag

\* return statements of the accessors; temperatures F and K in hundredths
getCO2Result(cache) == FloatToUint16(cache.co2)
getHumidityResult(cache) == {cache.humidity}
getTemperatureCResult(cache) == {cache.temperature}
getTemperatureFResult(cache) == {(FloatTimes100(cache.temperature) * 18) \div 10 + 3200}
\* a Kelvin conversion with the offset 273 instead of 273.15
getTemperatureKResultWhole(cache) == {FloatTimes100(cache.temperature) + 27300}

getTemperatureKResult(cache) == {FloatTimes100(cache.temperature) + 27315}

(***************************************************************************)
(* Start, stop, reset and the configuration setters and getters            *)
(* A void method yields its transactions only.                             *)
(***************************************************************************)
beginMeasuring(ambientPressureOffset, status) ==
    sendCommandArg(SCD30_START_CONTINUOUS_MEASUREMENT, ambientPressureOffset, status)

beginMeasuringDefault(status) == beginMeasuring(0, status)

stopMeasuring(status) == sendCommand(SCD30_STOP_CONTINUOUS_MEASUREMENT, status)

softReset(status) == sendCommand(SCD30_SOFT_RESET, status)

setMeasurementInterval(interval, status) ==
    sendCommandArg(SCD30_SET_MEASUREMENT_INTERVAL, interval, status).bus

\* begin that sets the interval whether or not the start was acknowledged
beginIgnoringAck(s1, s2) ==
    [ret |-> (s1 = 0),
     bus |-> beginMeasuringDefault(s1).bus \o setMeasurementInterval(DefaultInterval, s2)]

\* begin that starts the measurement and leaves the interval alone
beginWithoutInterval(s1, s2) ==
    LET started == beginMeasuringDefault(s1)
    IN  [ret |-> started.ret, bus |-> started.bus]

\* begin that reports the outcome of both commands
beginReportingInterval(s1, s2) ==
    LET started == beginMeasuringDefault(s1)
    IN  IF started.ret = TRUE
        THEN [ret |-> (s2 = 0),
              bus |-> started.bus \o setMeasurementInterval(DefaultInterval, s2)]
        ELSE [ret |-> FALSE, bus |-> started.bus]

begin(s1, s2) ==
    LET started == beginMeasuringDefault(s1)
    IN  IF started.ret = TRUE
        THEN [ret |-> TRUE,
              bus |-> started.bus \o setMeasurementInterval(DefaultInterval, s2)]
        ELSE [ret |-> FALSE, bus |-> started.bus]

enableAutomaticSelfCalibration(status) ==
    sendCommandArg(SCD30_SET_AUTOMATIC_SELFCALIBRATION, 1, status).bus

disableAutomaticSelfCalibration(status) ==
    sendCommandArg(SCD30_SET_AUTOMATIC_SELFCALIBRATION, 0, status).bus

\* the range check with exclusive limits
setForcedRecalibrationValueExclusive(concentration, status) ==
    IF concentration <= FrcMin \/ concentration >= FrcMax THEN << >>
    ELSE sendCommandArg(SCD30_SET_FORCED_RECALIBRATION, concentration, status).bus

setForcedRecalibrationValue(concentration, status) ==
    IF concentration < FrcMin \/ concentration > FrcMax THEN << >>
    ELSE sendCommandArg(SCD30_SET_FORCED_RECALIBRATION, concentration, status).bus

\* uint16_t tickOffest = tempOffset * 100: the values the conversion can produce
TickOffsets(tempOffset) ==
    LET v == FloatTimes100(tempOffset)
    IN  IF v >= 0 /\ v <= 65535 THEN {v} ELSE {0, 65535, v % 65536}

setTemperatureOffset(tickOffest, status) ==
    sendCommandArg(SCD30_SET_TEMPERATURE_OFFSET, tickOffest, status).bus

\* a pressure setter that drops an out-of-range value instead of coercing it
setAmbientPressureDropping(ambientPressure, status) ==
    IF ambientPressure < PressureMin \/ ambientPressure > PressureMax THEN << >>
    ELSE sendCommandArg(SCD30_START_CONTINUOUS_MEASUREMENT, ambientPressure, status).bus

\* a pressure setter that sends the value under the altitude opcode
setAmbientPressureAsAltitude(ambientPressure, status) ==
    LET p == IF ambientPressure < PressureMin \/ ambientPressure > PressureMax
             THEN 0 ELSE ambientPressure
    IN  sendCommandArg(SCD30_SET_ALTITUDE_COMPENSATION, p, status).bus

setAmbientPressure(ambientPressure, status) ==
    LET p == IF ambientPressure < PressureMin \/ ambientPressure > PressureMax
             THEN 0 ELSE ambientPressure
    IN  sendCommandArg(SCD30_START_CONTINUOUS_MEASUREMENT, p, status).bus

setAltitudeCompensation(altitude, status) ==
    sendCommandArg(SCD30_SET_ALTITUDE_COMPENSATION, altitude, status).bus

getMeasurementInterval(status, rx) ==
    readRegister(SCD30_SET_MEASUREMENT_INTERVAL, status, rx)

getAutomaticSelfCalibration(status, rx) ==
    LET reg == readRegister(SCD30_SET_AUTOMATIC_SELFCALIBRATION, status, rx)
    IN  [ret |-> (reg.ret = 1), bus |-> reg.bus]

getForcedRecalibrationValue(status, rx) ==
    readRegister(SCD30_SET_FORCED_RECALIBRATION, status, rx)

getTemperatureOffset(status, rx) ==
    readRegister(SCD30_SET_TEMPERATURE_OFFSET, status, rx)

\* an altitude getter that reads the measurement-interval register
getAltitudeCompensationFromInterval(status, rx) ==
    readRegister(SCD30_SET_MEASUREMENT_INTERVAL, status, rx)

getAltitudeCompensation(status, rx) ==
    readRegister(SCD30_SET_ALTITUDE_COMPENSATION, status, rx)

(***************************************************************************)
(* Inputs and environment choices                                          *)
(***************************************************************************)
\* bit patterns a device may report: 450.0078, -1.5, 1000.5, 70000.0
Co2Pattern(i) ==
    CASE i = 1 -> <<67, 225, 1, 2>>
      [] i = 2 -> <<191, 192, 0, 0>>
      [] i = 3 -> <<68, 122, 32, 0>>
      [] OTHER -> <<71, 136, 184, 0>>

\* 25.0, -10.0, 21.5, 0.25
TempPattern(i) ==
    CASE i = 1 -> <<65, 200, 0, 0>>
      [] i = 2 -> <<193, 32, 0, 0>>
      [] i = 3 -> <<65, 172, 0, 0>>
      [] OTHER -> <<62, 128, 0, 0>>

\* 50.005, 100.0, 0.0 with a set low bit, 12.5
HumPattern(i) ==
    CASE i = 1 -> <<66, 72, 5, 6>>
      [] i = 2 -> <<66, 200, 0, 0>>
      [] i = 3 -> <<0, 0, 0, 1>>
      [] OTHER -> <<65, 72, 0, 0>>

CrcVariants == {"valid", "zero", "ones", "mixed"}

\* the byte sent in CRC position k (1..6) after the byte pair
CrcFill(v, pair, k) ==
    CASE v = "valid" -> computeCRC8(pair, 2)
      [] v = "zero"  -> 0
      [] v = "ones"  -> 255
      [] OTHER       -> 16 * k + k

\* an 18-byte measurement frame: three fields, a CRC byte after each byte pair
Frame(c, t, h, v) ==
    <<c[1], c[2], CrcFill(v, <<c[1], c[2]>>, 1),
      c[3], c[4], CrcFill(v, <<c[3], c[4]>>, 2),
      t[1], t[2], CrcFill(v, <<t[1], t[2]>>, 3),
      t[3], t[4], CrcFill(v, <<t[3], t[4]>>, 4),
      h[1], h[2], CrcFill(v, <<h[1], h[2]>>, 5),
      h[3], h[4], CrcFill(v, <<h[3], h[4]>>, 6)>>

Frames ==
    {Frame(Co2Pattern(i), TempPattern(i), HumPattern(i), v) :
        i \in 1..NumPatterns, v \in CrcVariants}

\* what an 18-byte request can deliver
FrameReplies == {<< >>} \cup Frames

\* what a 2-byte request can deliver
RegisterReplies ==
    {<< >>, <<0, 0>>, <<0, 1>>, <<1, 0>>, <<1, 1>>, <<18, 52>>, <<255, 255>>}

\* 16-bit arguments: the range limits of the setters, their neighbours, extremes
Arguments ==
    {0, 1, 2, 10, 240, 1000, 1020, 1500, 4660, 32768, 65535}
        \cup (397..403) \cup (697..703) \cup (1197..1203) \cup (1997..2003)

\* arguments of the public sendCommand(command, argument)
SendArguments == {0, 1, 2, 255, 256, 1500, 4660, 48879, 65535}

Commands ==
    {SCD30_START_CONTINUOUS_MEASUREMENT, SCD30_STOP_CONTINUOUS_MEASUREMENT,
     SCD30_SET_MEASUREMENT_INTERVAL, SCD30_GET_READY_STATUS, SCD30_READ_MEASUREMENT,
     SCD30_SET_AUTOMATIC_SELFCALIBRATION, SCD30_SET_FORCED_RECALIBRATION,
     SCD30_SET_TEMPERATURE_OFFSET, SCD30_SET_ALTITUDE_COMPENSATION,
     SCD30_READ_FIRMWARE_VERSION, SCD30_SOFT_RESET}

\* float arguments of setTemperatureOffset: 0.0, 2.5, 0.5, -1.0
TempOffsets == {Zero32, <<64, 32, 0, 0>>, <<63, 0, 0, 0>>, <<191, 128, 0, 0>>}

SampleBytes == {0, 1, 128, 190, 239, 255}

RECURSIVE SeqsUpTo(_, _)
\* the sequences over S of length at most n
SeqsUpTo(S, n) ==
    IF n = 0 THEN {<< >>}
    ELSE LET shorter == SeqsUpTo(S, n - 1)
         IN  shorter \cup {Append(q, b) : q \in {x \in shorter : Len(x) = n - 1}, b \in S}

CrcSamples == SeqsUpTo(SampleBytes, MaxCrcLen)

(***************************************************************************)
(* Initial state: the engine as constructed                                *)
(***************************************************************************)
\* the device after power-up: idle, interval 2 s, no pressure compensation,
\* no register addressed
DeviceInit == [interval |-> 2, pressure |-> 0, measuring |-> FALSE, pointer |-> 0]

\* no callback attached, data-ready line low
IrqInit == [mode |-> "none", handler |-> "none", line |-> "none", level |-> 0, fires |-> 0]

\* a context that is not inside an accessor
ContextInit == [pc |-> "idle", t |-> TempInit, left |-> 0]

Init ==
    /\ co2 = Zero32
    /\ temperature = Zero32
    /\ humidity = Zero32
    /\ wireBegun = FALSE
    /\ op = "idle"
    /\ arg = << >>
    /\ ret = "void"
    /\ bus = << >>
    /\ old = TempInit
    /\ device = DeviceInit
    /\ irq = IrqInit
    /\ main = ContextInit
    /\ isr = ContextInit

\* the call `name` with input a returned r, performed transactions b and left
\* the cache c
Call(name, a, r, b, c) ==
    /\ op' = name
    /\ arg' = a
    /\ ret' = r
    /\ bus' = b
    /\ old' = Cache
    /\ co2' = c.co2
    /\ temperature' = c.temperature
    /\ humidity' = c.humidity

(***************************************************************************)
(* Actions: one per public method                                          *)
(***************************************************************************)
Begin ==
    /\ op = "idle"
    /\ \E s1 \in Statuses, s2 \in Statuses :
           LET r == begin(s1, s2)
           IN  /\ wireBegun' = TRUE
               /\ Call("begin", << >>, r.ret, r.bus, Cache)
               /\ UNCHANGED others

BeginMeasuring ==
    /\ op = "idle"
    /\ \E p \in Arguments, s \in Statuses :
           LET r == beginMeasuring(p, s)
           IN  /\ Call("beginMeasuring", p, r.ret, r.bus, Cache)
               /\ UNCHANGED <<wireBegun, others>>

StopMeasuring ==
    /\ op = "idle"
    /\ \E s \in Statuses :
           LET r == stopMeasuring(s)
           IN  /\ Call("stopMeasuring", << >>, r.ret, r.bus, Cache)
               /\ UNCHANGED <<wireBegun, others>>

\* a reset that also clears the cached measurement
SoftResetClearingCache ==
    /\ op = "idle"
    /\ \E s \in Statuses :
           LET r == softReset(s)
           IN  /\ Call("softReset", << >>, r.ret, r.bus, TempInit)
               /\ UNCHANGED <<wireBegun, others>>

SoftReset ==
    /\ op = "idle"
    /\ \E s \in Statuses :
           LET r == softReset(s)
           IN  /\ Call("softReset", << >>, r.ret, r.bus, Cache)
               /\ UNCHANGED <<wireBegun, others>>

SendCommand ==
    /\ op = "idle"
    /\ \E c \in Commands, s \in Statuses :
           LET r == sendCommand(c, s)
           IN  /\ Call("sendCommand", [command |-> c], r.ret, r.bus, Cache)
               /\ UNCHANGED <<wireBegun, others>>

SendCommandArg ==
    /\ op = "idle"
    /\ \E c \in Commands, a \in SendArguments, s \in Statuses :
           LET r == sendCommandArg(c, a, s)
           IN  /\ Call("sendCommandArg", [command |-> c, argument |-> a],
                       r.ret, r.bus, Cache)
               /\ UNCHANGED <<wireBegun, others>>

ReadRegister ==
    /\ op = "idle"
    /\ \E a \in Commands, s \in Statuses, rx \in RegisterReplies :
           LET r == readRegister(a, s, rx)
           IN  /\ Call("readRegister", a, r.ret, r.bus, Cache)
               /\ UNCHANGED <<wireBegun, others>>

DataAvailable ==
    /\ op = "idle"
    /\ \E s \in Statuses, rx \in RegisterReplies :
           LET r == dataAvailable(s, rx)
           IN  /\ Call("dataAvailable", << >>, r.ret, r.bus, Cache)
               /\ UNCHANGED <<wireBegun, others>>

ComputeCRC8 ==
    /\ op = "idle"
    /\ \E d \in CrcSamples :
           \E len \in 0..Len(d) :
               /\ Call("computeCRC8", [data |-> d, len |-> len],
                       computeCRC8(d, len), << >>, Cache)
               /\ UNCHANGED <<wireBegun, others>>

EnableAutomaticSelfCalibration ==
    /\ op = "idle"
    /\ \E s \in Statuses :
           /\ Call("enableAutomaticSelfCalibration", << >>, "void",
                   enableAutomaticSelfCalibration(s), Cache)
           /\ UNCHANGED <<wireBegun, others>>

DisableAutomaticSelfCalibration ==
    /\ op = "idle"
    /\ \E s \in Statuses :
           /\ Call("disableAutomaticSelfCalibration", << >>, "void",
                   disableAutomaticSelfCalibration(s), Cache)
           /\ UNCHANGED <<wireBegun, others>>

SetForcedRecalibrationValue ==
    /\ op = "idle"
    /\ \E c \in Arguments, s \in Statuses :
           /\ Call("setForcedRecalibrationValue", c, "void",
                   setForcedRecalibrationValue(c, s), Cache)
           /\ UNCHANGED <<wireBegun, others>>

SetMeasurementInterval ==
    /\ op = "idle"
    /\ \E i \in Arguments, s \in Statuses :
           /\ Call("setMeasurementInterval", i, "void",
                   setMeasurementInterval(i, s), Cache)
           /\ UNCHANGED <<wireBegun, others>>

SetTemperatureOffset ==
    /\ op = "idle"
    /\ \E f \in TempOffsets, s \in Statuses :
           \E tick \in TickOffsets(f) :
               /\ Call("setTemperatureOffset", f, "void",
                       setTemperatureOffset(tick, s), Cache)
               /\ UNCHANGED <<wireBegun, others>>

SetAmbientPressure ==
    /\ op = "idle"
    /\ \E p \in Arguments, s \in Statuses :
           /\ Call("setAmbientPressure", p, "void", setAmbientPressure(p, s), Cache)
           /\ UNCHANGED <<wireBegun, others>>

SetAltitudeCompensation ==
    /\ op = "idle"
    /\ \E a \in Arguments, s \in Statuses :
           /\ Call("setAltitudeCompensation", a, "void",
                   setAltitudeCompensation(a, s), Cache)
           /\ UNCHANGED <<wireBegun, others>>

GetMeasurementInterval ==
    /\ op = "idle"
    /\ \E s \in Statuses, rx \in RegisterReplies :
           LET r == getMeasurementInterval(s, rx)
           IN  /\ Call("getMeasurementInterval", << >>, r.ret, r.bus, Cache)
               /\ UNCHANGED <<wireBegun, others>>

GetAutomaticSelfCalibration ==
    /\ op = "idle"
    /\ \E s \in Statuses, rx \in RegisterReplies :
           LET r == getAutomaticSelfCalibration(s, rx)
           IN  /\ Call("getAutomaticSelfCalibration", << >>, r.ret, r.bus, Cache)
               /\ UNCHANGED <<wireBegun, others>>

GetForcedRecalibrationValue ==
    /\ op = "idle"
    /\ \E s \in Statuses, rx \in RegisterReplies :
           LET r == getForcedRecalibrationValue(s, rx)
           IN  /\ Call("getForcedRecalibrationValue", << >>, r.ret, r.bus, Cache)
               /\ UNCHANGED <<wireBegun, others>>

GetTemperatureOffset ==
    /\ op = "idle"
    /\ \E s \in Statuses, rx \in RegisterReplies :
           LET r == getTemperatureOffset(s, rx)
           IN  /\ Call("getTemperatureOffset", << >>, r.ret, r.bus, Cache)
               /\ UNCHANGED <<wireBegun, others>>

GetAltitudeCompensation ==
    /\ op = "idle"
    /\ \E s \in Statuses, rx \in RegisterReplies :
           LET r == getAltitudeCompensation(s, rx)
           IN  /\ Call("getAltitudeCompensation", << >>, r.ret, r.bus, Cache)
               /\ UNCHANGED <<wireBegun, others>>

ReadMeasurement ==
    /\ op = "idle"
    /\ \E s \in Statuses, rx \in FrameReplies :
           LET r == readMeasurement(Cache, s, rx)
           IN  /\ Call("readMeasurement", << >>, r.ret, r.bus, r.cache)
               /\ UNCHANGED <<wireBegun, others>>

\* the transport's answers to a second transaction, which happens only when the
\* first one reported data ready
SecondStatuses(s1, rx1) == IF dataAvailable(s1, rx1).ret THEN Statuses ELSE {0}
SecondReplies(s1, rx1) == IF dataAvailable(s1, rx1).ret THEN FrameReplies ELSE {<< >>}

\* an accessor: refresh the cache if data is ready, then return from the cache;
\* the set of values the return statement of accessor `name` can yield from cache c
AccessorResult(name, c) ==
    CASE name = "getHumidity"     -> getHumidityResult(c)
      [] name = "getTemperatureC" -> getTemperatureCResult(c)
      [] name = "getTemperatureF" -> getTemperatureFResult(c)
      [] name = "getTemperatureK" -> getTemperatureKResult(c)
      [] name = "getCO2"          -> getCO2Result(c)

Accessor(name) ==
    \E s1 \in Statuses, rx1 \in RegisterReplies :
        \E s2 \in SecondStatuses(s1, rx1), rx2 \in SecondReplies(s1, rx1) :
            LET r == Refresh(Cache, s1, rx1, s2, rx2)
            IN  \E v \in AccessorResult(name, r.cache) :
                    /\ Call(name, << >>, v, r.bus, r.cache)
                    /\ UNCHANGED <<wireBegun, others>>

GetHumidity ==
    /\ op = "idle"
    /\ Accessor("getHumidity")

GetTemperatureC ==
    /\ op = "idle"
    /\ Accessor("getTemperatureC")

GetTemperatureF ==
    /\ op = "idle"
    /\ Accessor("getTemperatureF")

GetTemperatureK ==
    /\ op = "idle"
    /\ Accessor("getTemperatureK")

GetCO2 ==
    /\ op = "idle"
    /\ Accessor("getCO2")

\* the sketch takes the result and goes on to its next statement
Resume ==
    /\ op # "idle"
    /\ op' = "idle"
    /\ arg' = << >>
    /\ ret' = "void"
    /\ bus' = << >>
    /\ old' = Cache
    /\ UNCHANGED <<co2, temperature, humidity, wireBegun, others>>

Next ==
    \/ Resume
    \/ Begin
    \/ BeginMeasuring
    \/ StopMeasuring
    \/ SoftReset
    \/ SendCommand
    \/ SendCommandArg
    \/ ReadRegister
    \/ DataAvailable
    \/ ComputeCRC8
    \/ EnableAutomaticSelfCalibration
    \/ DisableAutomaticSelfCalibration
    \/ SetForcedRecalibrationValue
    \/ SetMeasurementInterval
    \/ SetTemperatureOffset
    \/ SetAmbientPressure
    \/ SetAltitudeCompensation
    \/ GetMeasurementInterval
    \/ GetAutomaticSelfCalibration
    \/ GetForcedRecalibrationValue
    \/ GetTemperatureOffset
    \/ GetAltitudeCompensation
    \/ ReadMeasurement
    \/ GetHumidity
    \/ GetTemperatureC
    \/ GetTemperatureF
    \/ GetTemperatureK
    \/ GetCO2

Spec == Init /\ [][Next]_vars

(***************************************************************************)
(* computeCRC8 as a pure function: the inputs are drawn in the initial     *)
(* state and the function is applied to them.                              *)
(***************************************************************************)
\* every 2-byte argument, and the shorter and longer sample sequences
CrcInputs ==
    {[data |-> <<hi, lo>>, len |-> 2] : hi \in Byte, lo \in Byte}
        \cup {[data |-> d, len |-> Len(d)] : d \in CrcSamples}

InitCRC ==
    /\ co2 = Zero32
    /\ temperature = Zero32
    /\ humidity = Zero32
    /\ wireBegun = FALSE
    /\ op = "input"
    /\ arg \in CrcInputs
    /\ ret = "void"
    /\ bus = << >>
    /\ old = TempInit
    /\ device = DeviceInit
    /\ irq = IrqInit
    /\ main = ContextInit
    /\ isr = ContextInit

ApplyComputeCRC8 ==
    /\ op = "input"
    /\ Call("computeCRC8", arg, computeCRC8(arg.data, arg.len), << >>, Cache)
    /\ UNCHANGED <<wireBegun, others>>

NextCRC == ApplyComputeCRC8

SpecCRC == InitCRC /\ [][NextCRC]_vars

(***************************************************************************)
(* The range-checked setters over every uint16_t argument: the argument is *)
(* drawn in the initial state and one of the setters is applied to it.     *)
(***************************************************************************)
Uint16 == 0..65535

InitArgs ==
    /\ co2 = Zero32
    /\ temperature = Zero32
    /\ humidity = Zero32
    /\ wireBegun = FALSE
    /\ op = "input"
    /\ arg \in Uint16
    /\ ret = "void"
    /\ bus = << >>
    /\ old = TempInit
    /\ device = DeviceInit
    /\ irq = IrqInit
    /\ main = ContextInit
    /\ isr = ContextInit

ApplySetForcedRecalibrationValue ==
    /\ op = "input"
    /\ \E s \in Statuses :
           /\ Call("setForcedRecalibrationValue", arg, "void",
                   setForcedRecalibrationValue(arg, s), Cache)
           /\ UNCHANGED <<wireBegun, others>>

ApplySetAmbientPressure ==
    /\ op = "input"
    /\ \E s \in Statuses :
           /\ Call("setAmbientPressure", arg, "void", setAmbientPressure(arg, s), Cache)
           /\ UNCHANGED <<wireBegun, others>>

\* dataAvailable against a ready-status register holding the drawn value
ApplyDataAvailable ==
    /\ op = "input"
    /\ \E s \in Statuses, rx \in {<< >>, <<Msb(arg), Lsb(arg)>>} :
           LET r == dataAvailable(s, rx)
           IN  /\ Call("dataAvailable", arg, r.ret, r.bus, Cache)
               /\ UNCHANGED <<wireBegun, others>>

NextArgs ==
    \/ ApplySetForcedRecalibrationValue
    \/ ApplySetAmbientPressure
    \/ ApplyDataAvailable

SpecArgs == InitArgs /\ [][NextArgs]_vars

(***************************************************************************)
(* Observations on a call record                                           *)
(***************************************************************************)
\* transaction i of the call is an addressed write of exactly these bytes
WroteAt(i, bytes) ==
    /\ Len(bus) >= i
    /\ bus[i].kind = "write"
    /\ bus[i].addr = 97
    /\ bus[i].data = bytes

\* transaction i of the call is a read request for n bytes
RequestedAt(i, n) ==
    /\ Len(bus) >= i
    /\ bus[i].kind = "read"
    /\ bus[i].addr = 97
    /\ bus[i].n = n

\* the call wrote a command whose first two bytes are these
IssuedCommand(hi, lo) ==
    \E i \in 1..Len(bus) :
        /\ bus[i].kind = "write"
        /\ Len(bus[i].data) >= 2
        /\ bus[i].data[1] = hi
        /\ bus[i].data[2] = lo

\* the number of addressed writes and of read requests of the call
NumWrites == Cardinality({i \in 1..Len(bus) : bus[i].kind = "write"})
NumReads == Cardinality({i \in 1..Len(bus) : bus[i].kind = "read"})

AccessorOps ==
    {"getCO2", "getHumidity", "getTemperatureC", "getTemperatureF", "getTemperatureK"}

\* the ready-status register was read and its value was exactly 1
ReportedReady ==
    /\ WroteAt(1, <<2, 2>>)
    /\ bus[1].status = 0
    /\ RequestedAt(2, 2)
    /\ bus[2].data = <<0, 1>>

(***************************************************************************)
(* Reference CRC-8: the remainder of the message polynomial times x^8,     *)
(* with the first eight bits complemented (initial value 0xFF), divided    *)
(* by x^8 + x^5 + x^4 + 1, all bits most significant first.                *)
(***************************************************************************)
PolyBits == <<1, 0, 0, 1, 1, 0, 0, 0, 1>>

ByteBits(b) == [i \in 1..8 |-> (b \div Pow2(8 - i)) % 2]

RECURSIVE MessageBits(_)
MessageBits(data) ==
    IF data = << >> THEN << >> ELSE ByteBits(Head(data)) \o MessageBits(Tail(data))

AugmentedBits(data) ==
    LET m == MessageBits(data) \o <<0, 0, 0, 0, 0, 0, 0, 0>>
    IN  [i \in 1..Len(m) |-> IF i <= 8 THEN 1 - m[i] ELSE m[i]]

RECURSIVE PolyDivide(_, _)
PolyDivide(bits, i) ==
    IF i > Len(bits) - 8 THEN bits
    ELSE IF bits[i] = 0 THEN PolyDivide(bits, i + 1)
    ELSE PolyDivide([j \in 1..Len(bits) |->
                        IF j >= i /\ j <= i + 8
                        THEN (bits[j] + PolyBits[j - i + 1]) % 2
                        ELSE bits[j]], i + 1)

RECURSIVE BitsValue(_)
BitsValue(bits) ==
    IF bits = << >> THEN 0
    ELSE 2 * BitsValue(SubSeq(bits, 1, Len(bits) - 1)) + bits[Len(bits)]

RefCRC8(data) ==
    LET r == PolyDivide(AugmentedBits(data), 1)
    IN  BitsValue(SubSeq(r, Len(r) - 7, Len(r)))

(***************************************************************************)
(* A device behind the bus that acknowledges every write and stores the    *)
(* arguments of the commands it receives.  An argument is accepted only    *)
(* with a correct checksum.  The measurement interval and the pressure     *)
(* survive a stop and a soft reset.                                        *)
(***************************************************************************)
\* intervals and pressures the sketch sets
DeviceIntervals == {2, 10, 258, 1800}
DevicePressures == {0, 699, 1020, 1201}

\* the device after one acknowledged write of these bytes
DeviceWrite(dev, data) ==
    IF Len(data) = 2
    THEN LET c == data[1] * 256 + data[2]
         IN  IF c = SCD30_STOP_CONTINUOUS_MEASUREMENT
             THEN [dev EXCEPT !.measuring = FALSE, !.pointer = c]
             ELSE [dev EXCEPT !.pointer = c]
    ELSE IF Len(data) = 5 /\ data[5] = RefCRC8(<<data[3], data[4]>>)
    THEN LET c == data[1] * 256 + data[2]
             v == data[3] * 256 + data[4]
         IN  IF c = SCD30_START_CONTINUOUS_MEASUREMENT
             THEN [dev EXCEPT !.measuring = TRUE, !.pressure = v, !.pointer = c]
             ELSE IF c = SCD30_SET_MEASUREMENT_INTERVAL
             THEN [dev EXCEPT !.interval = v, !.pointer = c]
             ELSE [dev EXCEPT !.pointer = c]
    ELSE dev

RECURSIVE DeviceAfter(_, _)
\* the device after the acknowledged writes of a call, in order
DeviceAfter(dev, txs) ==
    IF txs = << >> THEN dev
    ELSE LET tx == Head(txs)
         IN  DeviceAfter(IF tx.kind = "write" /\ tx.status = 0
                         THEN DeviceWrite(dev, tx.data) ELSE dev,
                         Tail(txs))

\* the two bytes the device sends for the register it was last addressed at
DeviceReply(dev) ==
    IF dev.pointer = SCD30_SET_MEASUREMENT_INTERVAL
    THEN <<dev.interval \div 256, dev.interval % 256>>
    ELSE <<0, 0>>

BeginOnDevice ==
    /\ op = "idle"
    /\ LET r == begin(0, 0)
       IN  /\ wireBegun' = TRUE
           /\ Call("begin", << >>, r.ret, r.bus, Cache)
           /\ device' = DeviceAfter(device, r.bus)
           /\ UNCHANGED <<irq, main, isr>>

SetMeasurementIntervalOnDevice ==
    /\ op = "idle"
    /\ \E x \in DeviceIntervals :
           LET b == setMeasurementInterval(x, 0)
           IN  /\ Call("setMeasurementInterval", x, "void", b, Cache)
               /\ device' = DeviceAfter(device, b)
               /\ UNCHANGED <<wireBegun, irq, main, isr>>

\* the reply is the device's answer to the address the call has written
GetMeasurementIntervalOnDevice ==
    /\ op = "idle"
    /\ LET addressed == DeviceAfter(device, getMeasurementInterval(0, << >>).bus)
           r == getMeasurementInterval(0, DeviceReply(addressed))
       IN  /\ Call("getMeasurementInterval", << >>, r.ret, r.bus, Cache)
           /\ device' = addressed
           /\ UNCHANGED <<wireBegun, irq, main, isr>>

StopMeasuringOnDevice ==
    /\ op = "idle"
    /\ LET r == stopMeasuring(0)
       IN  /\ Call("stopMeasuring", << >>, r.ret, r.bus, Cache)
           /\ device' = DeviceAfter(device, r.bus)
           /\ UNCHANGED <<wireBegun, irq, main, isr>>

SoftResetOnDevice ==
    /\ op = "idle"
    /\ LET r == softReset(0)
       IN  /\ Call("softReset", << >>, r.ret, r.bus, Cache)
           /\ device' = DeviceAfter(device, r.bus)
           /\ UNCHANGED <<wireBegun, irq, main, isr>>

SetAmbientPressureOnDevice ==
    /\ op = "idle"
    /\ \E p \in DevicePressures :
           LET b == setAmbientPressure(p, 0)
           IN  /\ Call("setAmbientPressure", p, "void", b, Cache)
               /\ device' = DeviceAfter(device, b)
               /\ UNCHANGED <<wireBegun, irq, main, isr>>

NextDevice ==
    \/ Resume
    \/ BeginOnDevice
    \/ SetMeasurementIntervalOnDevice
    \/ GetMeasurementIntervalOnDevice
    \/ StopMeasuringOnDevice
    \/ SoftResetOnDevice
    \/ SetAmbientPressureOnDevice

SpecDevice == Init /\ [][NextDevice]_vars

(***************************************************************************)
(* The pressure setter over every uint16_t argument, against the same      *)
(* device after the sketch has begun and then stopped the measurement.     *)
(***************************************************************************)
InitStopped ==
    /\ co2 = Zero32
    /\ temperature = Zero32
    /\ humidity = Zero32
    /\ wireBegun = TRUE
    /\ op = "input"
    /\ ret = "void"
    /\ bus = << >>
    /\ old = TempInit
    /\ device = DeviceAfter(DeviceInit, begin(0, 0).bus \o stopMeasuring(0).bus)
    /\ irq = IrqInit
    /\ main = ContextInit
    /\ isr = ContextInit
    /\ arg \in Uint16

ApplySetAmbientPressureOnDevice ==
    /\ op = "input"
    /\ LET b == setAmbientPressure(arg, 0)
       IN  /\ Call("setAmbientPressure", arg, "void", b, Cache)
           /\ device' = DeviceAfter(device, b)
           /\ UNCHANGED <<wireBegun, irq, main, isr>>

NextRestart == ApplySetAmbientPressureOnDevice

SpecRestart == InitStopped /\ [][NextRestart]_vars

(***************************************************************************)
(* The lazy refresh step by step, in two contexts.  main is the sketch's   *)
(* ordinary control flow; isr is the callback attached to the data-ready   *)
(* line, which calls getCO2, getTemperatureC and getHumidity in turn.      *)
(* The processor runs the callback whenever the interrupt is requested,    *)
(* before the next step of main, and main continues when the callback has  *)
(* returned.  The device raises the line when a measurement is ready and   *)
(* lowers it when a measurement frame has been read.                       *)
(*                                                                         *)
(* A context c is [pc, t, left]: the next step of the accessor it is in,   *)
(* the locals tempCO2/tempTemperature/tempHumidity of readMeasurement, and *)
(* for the callback the number of accessor calls it still has to finish.   *)
(***************************************************************************)
\* the counter of callback entries since the last rising edge stops here
MaxFires == 2

\* the accessor calls in printValues
CallbackCalls == 3

\* attachInterrupt(digitalPinToInterrupt(pin), function, HIGH)
attachExternalInterrupt(pin, function) ==
    [mode |-> "HIGH", handler |-> function, line |-> pin]

\* mode HIGH requests the interrupt for as long as the line is high
InterruptRequested == irq.mode = "HIGH" /\ irq.level = 1

\* the steps of readMeasurement between the acknowledged command write and
\* the last store into the cache
InReadMeasurement ==
    {"readMeasurement_read", "store_co2", "store_temperature", "store_humidity"}

\* a readMeasurement that keeps interrupts off until it has stored its result
InterruptsMaskedInReadMeasurement(c) == c.pc \in InReadMeasurement

\* no accessor and no step of readMeasurement disables interrupts or takes a lock
InterruptsMasked(c) == FALSE

\* one step of `if (dataAvailable() == true) readMeasurement();` in context c:
\* the possible [ctx, cache, delivered], delivered telling that the device
\* handed over a measurement frame
StepOutcomes(c, cache) ==
    CASE c.pc = "dataAvailable_write" ->
             {[ctx |-> [c EXCEPT !.pc = IF s = 0 THEN "dataAvailable_read" ELSE "return"],
               cache |-> cache, delivered |-> FALSE] : s \in Statuses}
      [] c.pc = "dataAvailable_read" ->
             {[ctx |-> [c EXCEPT !.pc = IF dataAvailable(0, rx).ret
                                        THEN "readMeasurement_write" ELSE "return"],
               cache |-> cache, delivered |-> FALSE] : rx \in RegisterReplies}
      [] c.pc = "readMeasurement_write" ->
             {[ctx |-> [c EXCEPT !.pc = IF s = 0 THEN "readMeasurement_read" ELSE "return"],
               cache |-> cache, delivered |-> FALSE] : s \in Statuses}
      [] c.pc = "readMeasurement_read" ->
             {[ctx |-> [c EXCEPT !.pc = "store_co2",
                                 !.t = readMeasurement(cache, 0, rx).cache],
               cache |-> cache, delivered |-> WireAvailable(rx)] : rx \in FrameReplies}
      [] c.pc = "store_co2" ->
             {[ctx |-> [c EXCEPT !.pc = "store_temperature"],
               cache |-> [cache EXCEPT !.co2 = c.t.co2], delivered |-> FALSE]}
      [] c.pc = "store_temperature" ->
             {[ctx |-> [c EXCEPT !.pc = "store_humidity"],
               cache |-> [cache EXCEPT !.temperature = c.t.temperature],
               delivered |-> FALSE]}
      [] c.pc = "store_humidity" ->
             {[ctx |-> [c EXCEPT !.pc = "return", !.t = TempInit],
               cache |-> [cache EXCEPT !.humidity = c.t.humidity],
               delivered |-> FALSE]}
      [] OTHER -> {}

\* the shared effects of a step: the cache members and the data-ready line
StepEffect(o) ==
    /\ co2' = o.cache.co2
    /\ temperature' = o.cache.temperature
    /\ humidity' = o.cache.humidity
    /\ irq' = IF o.delivered THEN [irq EXCEPT !.level = 0] ELSE irq

\* setup() attaches printValues to the pin the RDY line is wired to
AttachExternalInterrupt ==
    /\ main.pc = "idle"
    /\ isr.pc = "idle"
    /\ irq.mode = "none"
    /\ LET a == attachExternalInterrupt("PIN_A5", "printValues")
       IN  irq' = [irq EXCEPT !.mode = a.mode, !.handler = a.handler, !.line = a.line]
    /\ UNCHANGED <<co2, temperature, humidity, wireBegun, op, arg, ret, bus, old,
                   device, main, isr>>

\* the device has a new measurement: RDY goes from low to high
PinRise ==
    /\ irq.level = 0
    /\ irq' = [irq EXCEPT !.level = 1, !.fires = 0]
    /\ UNCHANGED <<co2, temperature, humidity, wireBegun, op, arg, ret, bus, old,
                   device, main, isr>>

\* the processor enters the callback
IsrEnter ==
    /\ isr.pc = "idle"
    /\ InterruptRequested
    /\ ~InterruptsMasked(main)
    /\ isr' = [pc |-> "dataAvailable_write", t |-> TempInit, left |-> CallbackCalls]
    /\ irq' = [irq EXCEPT !.fires = IF irq.fires < MaxFires THEN irq.fires + 1
                                    ELSE MaxFires]
    /\ UNCHANGED <<co2, temperature, humidity, wireBegun, op, arg, ret, bus, old,
                   device, main>>

\* a step of the accessor the callback is in
IsrStep ==
    /\ isr.pc \notin {"idle", "return"}
    /\ \E o \in StepOutcomes(isr, Cache) :
           /\ isr' = o.ctx
           /\ StepEffect(o)
    /\ UNCHANGED <<wireBegun, op, arg, ret, bus, old, device, main>>

\* an accessor of the callback returns; after the last one the callback does
IsrReturn ==
    /\ isr.pc = "return"
    /\ isr' = IF isr.left > 1
              THEN [isr EXCEPT !.pc = "dataAvailable_write", !.left = isr.left - 1]
              ELSE ContextInit
    /\ UNCHANGED <<co2, temperature, humidity, wireBegun, op, arg, ret, bus, old,
                   device, irq, main>>

\* main runs only while no callback is active and none is due
MainMayRun ==
    /\ isr.pc = "idle"
    /\ ~(InterruptRequested /\ ~InterruptsMasked(main))

\* the sketch calls one of the accessors
MainCall ==
    /\ main.pc = "idle"
    /\ MainMayRun
    /\ main' = [main EXCEPT !.pc = "dataAvailable_write"]
    /\ UNCHANGED <<co2, temperature, humidity, wireBegun, op, arg, ret, bus, old,
                   device, irq, isr>>

MainStep ==
    /\ main.pc \notin {"idle", "return"}
    /\ MainMayRun
    /\ \E o \in StepOutcomes(main, Cache) :
           /\ main' = o.ctx
           /\ StepEffect(o)
    /\ UNCHANGED <<wireBegun, op, arg, ret, bus, old, device, isr>>

MainReturn ==
    /\ main.pc = "return"
    /\ MainMayRun
    /\ main' = ContextInit
    /\ UNCHANGED <<co2, temperature, humidity, wireBegun, op, arg, ret, bus, old,
                   device, irq, isr>>

NextIrq ==
    \/ AttachExternalInterrupt
    \/ PinRise
    \/ IsrEnter
    \/ IsrStep
    \/ IsrReturn
    \/ MainCall
    \/ MainStep
    \/ MainReturn

SpecIrq == Init /\ [][NextIrq]_vars

(***************************************************************************)
(* Claims                                                                  *)
(***************************************************************************)

\* C1: begin() returns false if the start-continuous-measurement command
\* (0x0010, argument 0) is not acknowledged, and then issues no
\* set-measurement-interval command; otherwise it returns true and issues
\* exactly one set-measurement-interval command (0x4600) with argument 2
\* after the start command.
C1_BeginReportsStartAck ==
    op = "begin" =>
        /\ wireBegun
        /\ WroteAt(1, <<0, 16, 0, 0, 129>>)
        /\ IF bus[1].status # 0
           THEN /\ ret = FALSE
                /\ Len(bus) = 1
                /\ ~IssuedCommand(70, 0)
           ELSE /\ ret = TRUE
                /\ Len(bus) = 2
                /\ WroteAt(2, <<70, 0, 0, 2, 227>>)

C1_Witness ==
    /\ op = "begin"
    /\ ret = FALSE
    /\ Len(bus) = 1
    /\ bus[1].status # 0

\* C2: lazy caching.  In an accessor whose ready-status check reported
\* false (register value other than 1, a write not acknowledged, or an empty
\* read), no read-measurement command (0x0300) is issued, the cache is
\* unchanged, and the value returned is the one the cache held before.
C2_LazyCaching ==
    (op \in AccessorOps /\ ~ReportedReady) =>
        /\ WroteAt(1, <<2, 2>>)
        /\ ~IssuedCommand(3, 0)
        /\ NumWrites = 1
        /\ Cache = old
        /\ (op = "getCO2" => ret \in FloatToUint16(old.co2))
        /\ (op = "getHumidity" => ret = old.humidity)
        /\ (op = "getTemperatureC" => ret = old.temperature)
        /\ (op = "getTemperatureF"
                => ret = (FloatTimes100(old.temperature) * 18) \div 10 + 3200)
        /\ (op = "getTemperatureK" => ret = FloatTimes100(old.temperature) + 27315)

C2_Witness ==
    /\ op = "getCO2"
    /\ ~ReportedReady
    /\ RequestedAt(2, 2)
    /\ bus[2].data = <<1, 1>>
    /\ old.co2 = <<67, 225, 1, 2>>
    /\ ret = 450

\* C3 (as claimed): when the read-measurement command is acknowledged but the
\* 18-byte request yields no bytes, readMeasurement() returns true and the
\* cached co2, temperature and humidity retain their values.
C3_EmptyReadKeepsCache ==
    (/\ op = "readMeasurement"
     /\ WroteAt(1, <<3, 0>>)
     /\ bus[1].status = 0
     /\ RequestedAt(2, 18)
     /\ bus[2].data = << >>)
        => (ret = TRUE /\ Cache = old)

\* C4: when the read-measurement command is not acknowledged,
\* readMeasurement() returns false, issues no 18-byte read request, and
\* leaves the cached co2, temperature and humidity unchanged.
C4_NackKeepsCache ==
    (op = "readMeasurement" /\ WroteAt(1, <<3, 0>>) /\ bus[1].status # 0) =>
        /\ ret = FALSE
        /\ Len(bus) = 1
        /\ NumReads = 0
        /\ Cache = old

C4_Witness ==
    /\ op = "readMeasurement"
    /\ WroteAt(1, <<3, 0>>)
    /\ bus[1].status # 0
    /\ ret = FALSE
    /\ old.co2 # Zero32
    /\ old.temperature # Zero32
    /\ old.humidity # Zero32

\* the frame f with the byte at offset k (0-based) replaced by v
WithByte(f, k, v) == [i \in 1..Len(f) |-> IF i = k + 1 THEN v ELSE f[i]]

\* C5: measurement decode.  After an acknowledged read-measurement command
\* that delivered the 18-byte frame f, the cache holds the bit patterns
\* co2 = f[0] f[1] f[3] f[4], temperature = f[6] f[7] f[9] f[10],
\* humidity = f[12] f[13] f[15] f[16] (most significant byte first), the call
\* returned true, and replacing any byte at offset 2, 5, 8, 11, 14 or 17
\* changes neither the cache nor the result.
C5_MeasurementDecode ==
    (/\ op = "readMeasurement"
     /\ WroteAt(1, <<3, 0>>)
     /\ bus[1].status = 0
     /\ RequestedAt(2, 18)
     /\ Len(bus[2].data) = 18)
        => LET f == bus[2].data
           IN  /\ ret = TRUE
               /\ co2 = <<f[1], f[2], f[4], f[5]>>
               /\ temperature = <<f[7], f[8], f[10], f[11]>>
               /\ humidity = <<f[13], f[14], f[16], f[17]>>
               /\ \A k \in {2, 5, 8, 11, 14, 17}, v \in {0, 85, 170, 255} :
                      LET m == readMeasurement(old, 0, WithByte(f, k, v))
                      IN  m.cache = Cache /\ m.ret = ret

C5_Witness ==
    /\ op = "readMeasurement"
    /\ RequestedAt(2, 18)
    /\ Len(bus[2].data) = 18
    /\ bus[2].data[3] = 17
    /\ bus[2].data[18] = 102
    /\ co2 = <<67, 225, 1, 2>>
    /\ temperature = <<65, 200, 0, 0>>
    /\ humidity = <<66, 72, 5, 6>>

\* C6: forced-recalibration range enforcement.  setForcedRecalibrationValue(c)
\* issues no bus transaction when c < 400 or c > 2000, and exactly one
\* set-forced-recalibration command (0x5204) with argument c and the
\* checksum of c's two bytes when 400 <= c <= 2000.
C6_ForcedRecalibrationRange ==
    op = "setForcedRecalibrationValue" =>
        IF arg < 400 \/ arg > 2000
        THEN bus = << >>
        ELSE /\ Len(bus) = 1
             /\ WroteAt(1, <<82, 4, arg \div 256, arg % 256,
                             RefCRC8(<<arg \div 256, arg % 256>>)>>)

C6_Witness ==
    /\ op = "setForcedRecalibrationValue"
    /\ arg = 2000
    /\ WroteAt(1, <<82, 4, 7, 208, RefCRC8(<<7, 208>>)>>)

\* C7: ambient-pressure coercion.  setAmbientPressure(p) issues exactly one
\* command, with argument 0 when p < 700 or p > 1200 and with argument p
\* when 700 <= p <= 1200; it never drops the command.
C7_AmbientPressureCoercion ==
    op = "setAmbientPressure" =>
        LET a == IF arg < 700 \/ arg > 1200 THEN 0 ELSE arg
        IN  /\ Len(bus) = 1
            /\ bus[1].kind = "write"
            /\ Len(bus[1].data) = 5
            /\ bus[1].data[3] = a \div 256
            /\ bus[1].data[4] = a % 256

C7_Witness ==
    /\ op = "setAmbientPressure"
    /\ arg = 1201
    /\ Len(bus) = 1
    /\ bus[1].data[3] = 0
    /\ bus[1].data[4] = 0

\* C8: wire format of sends.  The argument send writes exactly the five bytes
\* [c>>8, c&0xFF, a>>8, a&0xFF, computeCRC8([a>>8, a&0xFF])] in one
\* transaction to address 0x61, the no-argument send exactly the two bytes
\* [c>>8, c&0xFF]; each returns true iff the end-of-transmission status is 0.
C8_WireFormat ==
    /\ op = "sendCommandArg" =>
           /\ Len(bus) = 1
           /\ WroteAt(1, <<arg.command \div 256, arg.command % 256,
                           arg.argument \div 256, arg.argument % 256,
                           computeCRC8(<<arg.argument \div 256,
                                         arg.argument % 256>>, 2)>>)
           /\ ret = (bus[1].status = 0)
    /\ op = "sendCommand" =>
           /\ Len(bus) = 1
           /\ WroteAt(1, <<arg.command \div 256, arg.command % 256>>)
           /\ ret = (bus[1].status = 0)

C8_Witness ==
    /\ op = "sendCommandArg"
    /\ arg.command = 20996
    /\ arg.argument = 4660
    /\ bus[1].data = <<82, 4, 18, 52, 55>>
    /\ ret = TRUE

\* C9: computeCRC8(data, len) equals the reference CRC-8 (polynomial 0x31,
\* initial value 0xFF, MSB first, no reflection, no final XOR) of the first
\* len bytes, fits in 8 bits, and the call changes no engine state and
\* performs no bus transaction.
C9_CrcMatchesReference ==
    op = "computeCRC8" =>
        /\ ret = RefCRC8(SubSeq(arg.data, 1, arg.len))
        /\ ret \in 0..255
        /\ Cache = old
        /\ bus = << >>

C9_Witness ==
    /\ op = "computeCRC8"
    /\ arg.data = <<190, 239>>
    /\ arg.len = 2
    /\ ret = 146

\* C10: readRegister(address) writes the two address bytes MSB first; it
\* returns 0 without a read request if the write is not acknowledged, 0 if
\* the 2-byte request yields no bytes, and otherwise
\* (first byte << 8) | second byte.
C10_ReadRegister ==
    op = "readRegister" =>
        /\ WroteAt(1, <<arg \div 256, arg % 256>>)
        /\ IF bus[1].status # 0
           THEN ret = 0 /\ Len(bus) = 1
           ELSE /\ Len(bus) = 2
                /\ RequestedAt(2, 2)
                /\ IF bus[2].data = << >>
                   THEN ret = 0
                   ELSE ret = bus[2].data[1] * 256 + bus[2].data[2]

\* a genuine register value of zero, indistinguishable from the failures
C10_Witness ==
    /\ op = "readRegister"
    /\ bus[1].status = 0
    /\ RequestedAt(2, 2)
    /\ bus[2].data = <<0, 0>>
    /\ ret = 0

\* C11: dataAvailable() reads register 0x0202 once and returns true exactly
\* when the write was acknowledged, two bytes arrived and their big-endian
\* value is 1; every other 16-bit value, an unacknowledged write and an
\* empty read yield false.
C11_DataAvailable ==
    op = "dataAvailable" =>
        /\ WroteAt(1, <<2, 2>>)
        /\ NumWrites = 1
        /\ ret = (/\ bus[1].status = 0
                  /\ RequestedAt(2, 2)
                  /\ bus[2].data # << >>
                  /\ bus[2].data[1] * 256 + bus[2].data[2] = 1)

\* the register holds 0x0101: the low byte is 1 but the value is not
C11_Witness ==
    /\ op = "dataAvailable"
    /\ bus[1].status = 0
    /\ RequestedAt(2, 2)
    /\ bus[2].data = <<1, 1>>
    /\ ret = FALSE

ConfigGetters ==
    {"getMeasurementInterval", "getForcedRecalibrationValue", "getTemperatureOffset",
     "getAltitudeCompensation", "getAutomaticSelfCalibration"}

\* the opcode of the setter that matches a getter, as two bytes
SetterOpcode(getter) ==
    CASE getter = "getMeasurementInterval"      -> <<70, 0>>
      [] getter = "getForcedRecalibrationValue" -> <<82, 4>>
      [] getter = "getTemperatureOffset"        -> <<84, 3>>
      [] getter = "getAltitudeCompensation"     -> <<81, 2>>
      [] getter = "getAutomaticSelfCalibration" -> <<83, 6>>

\* the 16-bit value the device reported in this call, 0 if it reported none
ReportedValue ==
    IF Len(bus) >= 2 /\ bus[2].kind = "read" /\ bus[2].data # << >>
    THEN bus[2].data[1] * 256 + bus[2].data[2]
    ELSE 0

\* C13: every call of a configuration getter performs one register read at
\* the matching setter's opcode (0x4600, 0x5204, 0x5403, 0x5102, 0x5306) and
\* returns the value reported in that very call -- getAutomaticSelfCalibration
\* returns true exactly when it is 1 -- so nothing is served from a cache.
C13_GettersReadDevice ==
    op \in ConfigGetters =>
        /\ WroteAt(1, SetterOpcode(op))
        /\ NumWrites = 1
        /\ bus[1].status = 0 => RequestedAt(2, 2)
        /\ IF op = "getAutomaticSelfCalibration"
           THEN ret = (ReportedValue = 1)
           ELSE ret = ReportedValue

C13_Witness ==
    /\ op = "getAltitudeCompensation"
    /\ bus[1].status = 0
    /\ RequestedAt(2, 2)
    /\ bus[2].data = <<18, 52>>
    /\ ret = 4660

\* the Celsius value of the temperature patterns a device reports here, in
\* hundredths: 0.0, 25.0, -10.0, 21.5 and 0.25
CelsiusHundredths(f) ==
    CASE f = <<0, 0, 0, 0>>     -> 0
      [] f = <<65, 200, 0, 0>>  -> 2500
      [] f = <<193, 32, 0, 0>>  -> 0 - 1000
      [] f = <<65, 172, 0, 0>>  -> 2150
      [] f = <<62, 128, 0, 0>>  -> 25

\* the cached temperature after the call is the one before it or the raw
\* field of the frame this call read (zero for an empty read)
CachedTemperatureIsRaw ==
    \/ temperature = old.temperature
    \/ /\ Len(bus) = 4
       /\ \/ bus[4].data = << >> /\ temperature = Zero32
          \/ /\ Len(bus[4].data) = 18
             /\ temperature = <<bus[4].data[7], bus[4].data[8],
                                bus[4].data[10], bus[4].data[11]>>

\* C14: with t the cached temperature that getTemperatureC() returns,
\* negative values included, getTemperatureF() returns t * 1.8 + 32 and
\* getTemperatureK() returns t + 273.15 (here in exact hundredths); the
\* converted value is computed for the return and never written to the
\* cache, which keeps the raw Celsius field.
C14_UnitConversions ==
    /\ op = "getTemperatureC" => ret = temperature
    /\ op = "getTemperatureF" =>
           /\ 10 * (ret - 3200) = 18 * CelsiusHundredths(temperature)
           /\ CachedTemperatureIsRaw
    /\ op = "getTemperatureK" =>
           /\ ret = CelsiusHundredths(temperature) + 27315
           /\ CachedTemperatureIsRaw

\* -10.0 degrees Celsius held in the cache and read as Kelvin without a refresh
C14_Witness ==
    /\ op = "getTemperatureK"
    /\ old.temperature = <<193, 32, 0, 0>>
    /\ Cache = old
    /\ ret = 26315

\* the positions in the call record of the writes of a two-byte command
CommandWrites(hi, lo) ==
    {i \in 1..Len(bus) : bus[i].kind = "write" /\ bus[i].data = <<hi, lo>>}

\* C15: a call of getCO2, getHumidity, getTemperatureC, getTemperatureF or
\* getTemperatureK performs exactly one ready-status register read (0x0202),
\* first, and at most one read-measurement transaction (0x0300), which comes
\* directly after the ready-status read and only if that read returned
\* exactly 1; the call then returns with no further transaction.
C15_AccessorOrdering ==
    op \in AccessorOps =>
        /\ CommandWrites(2, 2) = {1}
        /\ NumWrites <= 2
        /\ Len(bus) <= 4
        /\ IF CommandWrites(3, 0) # {}
           THEN /\ ReportedReady
                /\ CommandWrites(3, 0) = {3}
                /\ bus[3].status = 0 => Len(bus) = 4 /\ RequestedAt(4, 18)
                /\ bus[3].status # 0 => Len(bus) = 3
           ELSE /\ ~ReportedReady
                /\ Len(bus) <= 2

\* the ready status was read as 2, and the accessor returned after that read
C15_Witness ==
    /\ op = "getCO2"
    /\ bus[1].status = 0
    /\ RequestedAt(2, 2)
    /\ bus[2].data = <<1, 0>>
    /\ Len(bus) = 2

\* C16: under every acknowledgment and availability outcome a command send
\* (with or without argument), readRegister and readMeasurement each perform
\* exactly one addressed write and at most one read request and then return;
\* an unacknowledged write is followed by no further transaction and is
\* reported as false (0 for readRegister).
C16_NoRetries ==
    op \in {"sendCommand", "sendCommandArg", "readRegister", "readMeasurement"} =>
        /\ NumWrites = 1
        /\ NumReads <= 1
        /\ bus[1].kind = "write"
        /\ bus[1].status # 0 =>
               /\ Len(bus) = 1
               /\ IF op = "readRegister" THEN ret = 0 ELSE ret = FALSE

C16_Witness ==
    /\ op = "sendCommand"
    /\ bus[1].status # 0
    /\ Len(bus) = 1
    /\ ret = FALSE

\* C20: the result of begin() is the acknowledgment of the start command
\* alone: when the start command is acknowledged and the interval command
\* is not, begin() still returns true.
C20_BeginIgnoresIntervalAck ==
    op = "begin" =>
        /\ ret = (bus[1].status = 0)
        /\ (bus[1].status = 0 /\ Len(bus) >= 2 /\ bus[2].status # 0) => ret = TRUE

C20_Witness ==
    /\ op = "begin"
    /\ WroteAt(1, <<0, 16, 0, 0, 129>>)
    /\ bus[1].status = 0
    /\ WroteAt(2, <<70, 0, 0, 2, 227>>)
    /\ bus[2].status # 0
    /\ ret = TRUE

\* C17: against a device that acknowledges every write and stores command
\* arguments, setMeasurementInterval(x) leaves x in the device's interval
\* register, every successful begin() leaves 2 there whatever was set
\* before, no other call changes the register, and getMeasurementInterval()
\* returns the register's content -- so the next getMeasurementInterval()
\* after setMeasurementInterval(x) returns x, and after a later begin(), 2.
C17_IntervalRoundTrip ==
    [][/\ op' = "setMeasurementInterval" => device'.interval = arg'
       /\ (op' = "begin" /\ ret' = TRUE) => device'.interval = 2
       /\ op' = "getMeasurementInterval" => ret' = device.interval
       /\ op' \notin {"setMeasurementInterval", "begin"} =>
              device'.interval = device.interval]_vars

\* the interval was set to 258 and is read back
C17_Witness ==
    /\ op = "getMeasurementInterval"
    /\ WroteAt(1, <<70, 0>>)
    /\ bus[2].data = <<1, 2>>
    /\ ret = 258
    /\ device.measuring

\* C18: attachExternalInterrupt(pin, callback) registers the callback so
\* that it is entered once for each rising edge of the data-ready line and
\* not again while the line stays high: between two rising edges the
\* callback is entered at most once.
C18_OncePerRisingEdge ==
    irq.handler = "printValues" => irq.fires <= 1

\* two executions of readMeasurement are in progress at once
Overlap ==
    /\ main.pc \in InReadMeasurement
    /\ isr.pc \in InReadMeasurement

\* C19: the engine offers no mutual exclusion: whenever main is inside
\* readMeasurement and the attached callback is due, the callback is entered
\* (nothing masks it), so two readMeasurement executions can overlap; and
\* an overlap exists only with an attached callback -- with the sketch as
\* the single thread of control there is none.
C19_NoMutualExclusion ==
    /\ (main.pc \in InReadMeasurement /\ isr.pc = "idle" /\ InterruptRequested)
           => ENABLED IsrEnter
    /\ Overlap => irq.handler = "printValues"
    /\ irq.mode = "none" => isr.pc = "idle"

\* the callback has written its own read-measurement command while main
\* holds a decoded frame it has not stored yet
C19_Witness ==
    /\ Overlap
    /\ main.pc = "store_co2"
    /\ isr.pc = "readMeasurement_read"

\* the three fields an 18-byte frame carries, by position
FrameFields(f) ==
    [co2 |-> <<f[1], f[2], f[4], f[5]>>,
     temperature |-> <<f[7], f[8], f[10], f[11]>>,
     humidity |-> <<f[13], f[14], f[16], f[17]>>]

\* the frame the call read, if it read one
FrameRead ==
    IF bus # << >> /\ bus[Len(bus)].kind = "read" /\ bus[Len(bus)].n = 18
    THEN bus[Len(bus)].data
    ELSE << >>

C22_PressureRestartsMeasurement ==
    /\ op = "input" =>
           /\ ~device.measuring
           /\ device.pointer = 260
    /\ op = "setAmbientPressure" =>
           LET v == IF arg < 700 \/ arg > 1200 THEN 0 ELSE arg
           IN  /\ Len(bus) = 1
               /\ bus[1].kind = "write"
               /\ bus[1].status = 0
               /\ SubSeq(bus[1].data, 1, 4) = <<0, 16, v \div 256, v % 256>>
               /\ bus = beginMeasuring(v, 0).bus
               /\ device.measuring
               /\ device.pressure = v

\* the stopped device measures again after setAmbientPressure(1020)
C22_Witness ==
    /\ op = "setAmbientPressure"
    /\ arg = 1020
    /\ WroteAt(1, <<0, 16, 3, 252, RefCRC8(<<3, 252>>)>>)
    /\ device.measuring
    /\ device.pressure = 1020

====
